---- MODULE Spec2Model ----
(***************************************************************************)
(* Model of src/tools/updateActivity.ts: the update-activity tool handler  *)
(* of strava-mcp (input schema, formatActivityDetails, execute).           *)
(*                                                                         *)
(* JavaScript values are tagged records.  A string is a sequence of atoms: *)
(* every character that the code inspects (error messages, digits) is an   *)
(* atom of its own, and a fixed phrase of a template literal is one atom.  *)
(* The three emoji of the source are written as their code points.         *)
(***************************************************************************)
EXTENDS Integers, Sequences, FiniteSets, TLC

VARIABLES
    env,        \* process.env.STRAVA_ACCESS_TOKEN
    pc,         \* pc[i]: where invocation i of execute stands
    input,      \* input[i]: the (validated) argument of invocation i
    token,      \* token[i]: the local const token of invocation i
    calls,      \* calls[i]: number of calls of updateActivityInStrava made by i
    callArgs,   \* callArgs[i]: arguments of i's call of updateActivityInStrava
    outcome,    \* outcome[i]: how i's awaited promise settled
    result,     \* result[i]: the value execute returned
    raw,        \* the value handed to inputSchema.safeParse
    parsed,     \* what safeParse returned
    activity,   \* the argument of formatActivityDetails
    details     \* what formatActivityDetails returned

vars == <<env, pc, input, token, calls, callArgs, outcome, result,
          raw, parsed, activity, details>>

handlerVars == <<env, pc, input, token, calls, callArgs, outcome, result>>

-----------------------------------------------------------------------------
(* Bounds of the model *)

NumProcs == 2          \* concurrent invocations of execute
MaxId == 2             \* activity identifiers 1..MaxId (and 404, 12345)
MaxMsgLen == 3         \* error messages over the digits 4 and 0, up to this length
MaxDistance == 12      \* distances 0..MaxDistance metres (and some larger ones)
MaxElevTenths == 26    \* elevation gains 0..MaxElevTenths tenths of a metre

Procs == 1..NumProcs

-----------------------------------------------------------------------------
(* JavaScript values *)

Undefined == [t |-> "undefined"]
Null == [t |-> "null"]
NaN == [t |-> "NaN"]
Infinity == [t |-> "Infinity"]
Str(s) == [t |-> "string", v |-> s]
Bool(b) == [t |-> "boolean", v |-> b]
\* a finite number num/den
Rat(n, d) == [t |-> "number", num |-> n, den |-> d]
Num(n) == Rat(n, 1)
ErrorObj(m) == [t |-> "Error", message |-> m]

\* ToBoolean, as `!token`, `activity.distance ? ... : ...` apply it
Truthy(v) ==
    CASE v.t = "undefined" -> FALSE
      [] v.t = "null" -> FALSE
      [] v.t = "NaN" -> FALSE
      [] v.t = "string" -> v.v # <<>>
      [] v.t = "boolean" -> v.v
      [] v.t = "number" -> v.num # 0
      [] OTHER -> TRUE

DigitChar == <<"0", "1", "2", "3", "4", "5", "6", "7", "8", "9">>

RECURSIVE Digits(_)
\* the decimal digits of a natural number, one atom each
Digits(n) == IF n < 10 THEN <<DigitChar[n + 1]>>
             ELSE Digits(n \div 10) \o <<DigitChar[(n % 10) + 1]>>

\* String.prototype.includes
Includes(s, needle) ==
    \E k \in 0..(Len(s) - Len(needle)) : SubSeq(s, k + 1, k + Len(needle)) = needle

\* String(v) / template-literal conversion of the values the model uses
\* (the numbers converted are the integers: identifiers and thrown status codes)
StringOf(v) ==
    CASE v.t = "string" -> v.v
      [] v.t = "number" -> Digits(v.num \div v.den)
      [] v.t = "boolean" -> IF v.v THEN <<"true">> ELSE <<"false">>
      [] v.t = "null" -> <<"n", "u", "l", "l">>
      [] v.t = "undefined" -> <<"undefined">>
      [] v.t = "NaN" -> <<"NaN">>
      [] v.t = "Error" -> <<"Error: ">> \o v.message
      [] OTHER -> <<"[object Object]">>

-----------------------------------------------------------------------------
(* formatActivityDetails (lines 19-34) *)

SuccessGlyph == "U+2705"
FailureGlyph == "U+274C"
RunnerGlyph == "U+1F3C3"
NewLine == "\n"

MetresPerKm == 1000

\* a completion: a returned value, or a thrown one
Returned(v) == [threw |-> FALSE, value |-> v]
Threw(e) == [threw |-> TRUE, error |-> e]

\* Number.prototype.toFixed(2) of the number n/d, n >= 0 (n/d is no tie of the
\* rounding: the distances of the model are chosen so)
ToFixed2(n, d) ==
    LET h == (200 * n + d) \div (2 * d)
    IN  Digits(h \div 100) \o <<".">> \o
        <<DigitChar[((h % 100) \div 10) + 1], DigitChar[(h % 10) + 1]>>

\* Math.round of the number n/d: the nearest integer, a half rounding up
MathRound(n, d) == (2 * n + d) \div (2 * d)

\* new Date(s).toLocaleString(): decided by the host's locale and time zone,
\* kept as the date it was computed from
ToLocaleString(s) == <<"toLocaleString(">> \o StringOf(s) \o <<")">>

DistanceText(a) ==
    IF Truthy(a.distance)
    THEN ToFixed2(a.distance.num, a.distance.den * MetresPerKm) \o <<" km">>
    ELSE <<"N/A">>

ElevationText(a) ==
    IF Truthy(a.total_elevation_gain)
    THEN Digits(MathRound(a.total_elevation_gain.num, a.total_elevation_gain.den))
         \o <<" m">>
    ELSE <<"N/A">>

YesNo(v) == IF Truthy(v) THEN <<"Yes">> ELSE <<"No">>

\* `as` of a plausible slip: the line's guard tests truthiness, as line 29 does
\* for the description, instead of `!== undefined`
HasDistanceLineTruthy(a) == Truthy(a.distance)

HasDistanceLine(a) == a.distance # Undefined
HasElevationLine(a) == a.total_elevation_gain # Undefined
HasDescriptionLine(a) == Truthy(a.description)

formatActivityDetails(a) ==
    IF a.t # "object"
    THEN \* reading activity.start_date_local of undefined / null
         Threw(ErrorObj(<<"Cannot read properties of ">> \o StringOf(a)
                        \o <<" (reading 'start_date_local')">>))
    ELSE Returned(
           <<RunnerGlyph, " **">> \o StringOf(a.name) \o <<"** (ID: ">>
             \o StringOf(a.id) \o <<")", NewLine>>
           \o <<"   - Type: ">> \o StringOf(a.type) \o <<" (">>
             \o StringOf(a.sport_type) \o <<")", NewLine>>
           \o <<"   - Date: ">> \o ToLocaleString(a.start_date_local) \o <<NewLine>>
           \o (IF HasDistanceLine(a)
               THEN <<"   - Distance: ">> \o DistanceText(a) \o <<NewLine>>
               ELSE <<>>)
           \o (IF HasElevationLine(a)
               THEN <<"   - Elevation Gain: ">> \o ElevationText(a) \o <<NewLine>>
               ELSE <<>>)
           \o (IF HasDescriptionLine(a)
               THEN <<"   - Description: ">> \o StringOf(a.description) \o <<NewLine>>
               ELSE <<>>)
           \o <<"   - Private: ">> \o YesNo(a.private) \o <<NewLine>>
           \o <<"   - Commute: ">> \o YesNo(a.commute) \o <<NewLine>>)

\* the StravaDetailedActivity fields the formatter reads
Activity(id, name, date, dist, elev, desc, priv, comm) ==
    [t |-> "object", id |-> Num(id), name |-> Str(name),
     type |-> Str(<<"Run">>), sport_type |-> Str(<<"running">>),
     start_date_local |-> Str(date), distance |-> dist,
     total_elevation_gain |-> elev, description |-> desc,
     private |-> priv, commute |-> comm]

\* metres; d/1000 with d % 10 = 5 is a tie of toFixed(2), whose direction the
\* binary representation of d/1000 decides: left out
Distances == {d \in (0..MaxDistance) \cup {994, 996, 1234, 5000, 12346} : d % 10 # 5}
ElevTenths == 0..MaxElevTenths

Activities ==
    {Activity(id, name, date, dist, elev, desc, priv, comm) :
        id \in {1, 12345}, name \in {<<"a">>},
        date \in {<<"2024-01-01T06:00:00Z">>},
        dist \in {Undefined} \cup {Num(d) : d \in Distances},
        elev \in {Undefined} \cup {Rat(e, 10) : e \in ElevTenths},
        desc \in {Undefined, Null, Str(<<>>), Str(<<"d">>)},
        priv \in {Bool(TRUE), Bool(FALSE)},
        comm \in {Bool(TRUE), Bool(FALSE), Undefined}}

\* one evaluation of formatActivityDetails
Format(a) ==
    /\ activity = Undefined
    /\ activity' = a
    /\ details' = formatActivityDetails(a)
    /\ UNCHANGED <<handlerVars, raw, parsed>>

-----------------------------------------------------------------------------
(* UpdateActivityInputSchema (lines 5-14) and inputSchema.safeParse *)

\* an input object: the eight keys of the schema and one key it does not know
\* (an absent key reads as undefined)
InputObject(id, name, type, sportType, description, private, commute, gearId, extra) ==
    [t |-> "object", activityId |-> id, name |-> name, type |-> type,
     sportType |-> sportType, description |-> description, private |-> private,
     commute |-> commute, gearId |-> gearId, extra |-> extra]

\* z.number(): typeof "number" and not NaN
ZNumber(v) == v.t \in {"number", "Infinity"}
\* .int(): Number.isInteger
ZInt(v) == v.t = "number" /\ v.num % v.den = 0
\* .positive(): > 0
ZPositive(v) == v.t = "Infinity" \/ (v.t = "number" /\ v.num > 0)
ZString(v) == v.t = "string"
ZBoolean(v) == v.t = "boolean"

\* `as` of a plausible slip: gearId declared z.string().optional(), without .nullable()
GearIdIssuesNotNullable(v) ==
    IF v = Undefined \/ ZString(v) THEN {} ELSE {<<"gearId", "invalid_type">>}

\* activityId: z.number().int().positive() (line 6); both checks report
ActivityIdIssues(v) ==
    IF ~ZNumber(v) THEN {<<"activityId", "invalid_type">>}
    ELSE (IF ~ZInt(v) THEN {<<"activityId", "not_integer">>} ELSE {})
         \cup (IF ~ZPositive(v) THEN {<<"activityId", "too_small">>} ELSE {})

\* z.string().optional() (lines 7-10)
OptionalStringIssues(key, v) ==
    IF v = Undefined \/ ZString(v) THEN {} ELSE {<<key, "invalid_type">>}

\* z.boolean().optional() (lines 11-12)
OptionalBooleanIssues(key, v) ==
    IF v = Undefined \/ ZBoolean(v) THEN {} ELSE {<<key, "invalid_type">>}

\* gearId: z.string().nullable().optional() (line 13)
GearIdIssues(v) ==
    IF v = Undefined \/ v = Null \/ ZString(v) THEN {} ELSE {<<"gearId", "invalid_type">>}

SchemaIssues(v) ==
    IF v.t # "object" THEN {<<"", "invalid_type">>}
    ELSE ActivityIdIssues(v.activityId)
         \cup OptionalStringIssues("name", v.name)
         \cup OptionalStringIssues("type", v.type)
         \cup OptionalStringIssues("sportType", v.sportType)
         \cup OptionalStringIssues("description", v.description)
         \cup OptionalBooleanIssues("private", v.private)
         \cup OptionalBooleanIssues("commute", v.commute)
         \cup GearIdIssues(v.gearId)

\* safeParse: a result object either way; a z.object strips the keys it does not know
safeParse(v) ==
    IF SchemaIssues(v) = {}
    THEN [success |-> TRUE, data |-> [v EXCEPT !.extra = Undefined]]
    ELSE [success |-> FALSE, error |-> SchemaIssues(v)]

RawActivityIds ==
    {Undefined, Null, NaN, Infinity, Str(<<"1">>)}
    \cup {Num(n) : n \in (-1..MaxId) \cup {-12345, 12345}}
    \cup {Rat(1, 2), Rat(3, 2), Rat(-1, 2)}

RawInputs ==
    {Undefined, Null, Str(<<"1">>)}
    \cup {InputObject(id, name, type, sportType, description, private, commute, gearId, extra) :
            id \in RawActivityIds,
            name \in {Undefined, Str(<<>>), Null, Num(1)},
            type \in {Str(<<"Run">>), Bool(TRUE)},
            sportType \in {Undefined, Null},
            description \in {Str(<<"d">>), Num(0)},
            private \in {Undefined, Bool(FALSE), Str(<<"true">>), Null},
            commute \in {Undefined, Bool(TRUE), Num(0)},
            gearId \in {Undefined, Null, Str(<<"b">>), Num(1), Bool(FALSE)},
            extra \in {Undefined, Str(<<"x">>)}}

\* one call of updateActivityTool.inputSchema.safeParse
SafeParse(v) ==
    /\ raw = Undefined /\ parsed = Undefined
    /\ raw' = v
    /\ parsed' = safeParse(v)
    /\ UNCHANGED <<handlerVars, activity, details>>

-----------------------------------------------------------------------------
(* updateActivityTool.execute (lines 41-97) *)

\* `as` of a plausible slip: `token === undefined` instead of `!token`
TokenMissingUndefinedOnly(tok) == tok = Undefined

\* line 44: !token
TokenMissing(tok) == ~Truthy(tok)

EmptyObject == [k \in {} |-> Undefined]
\* obj.key = val
Assign(obj, key, val) ==
    [k \in DOMAIN obj \cup {key} |-> IF k = key THEN val ELSE obj[k]]
\* if (v !== undefined) obj.key = v
AssignIfDefined(obj, key, v) == IF v # Undefined THEN Assign(obj, key, v) ELSE obj

\* `as` of a plausible slip: `if (v) obj.key = v`, dropping "", false and null
BuildUpdateParamsTruthy(in) ==
    LET set(obj, key, v) == IF Truthy(v) THEN Assign(obj, key, v) ELSE obj
    IN  set(set(set(set(set(set(set(EmptyObject,
            "name", in.name), "type", in.type), "sport_type", in.sportType),
            "description", in.description), "private", in.private),
            "commute", in.commute), "gear_id", in.gearId)

RECURSIVE MergeAll(_, _)
MergeAll(objs, into) ==
    IF objs = {} THEN into
    ELSE LET o == CHOOSE x \in objs : TRUE
         IN  MergeAll(objs \ {o}, [k \in DOMAIN o \cup DOMAIN into |->
                                     IF k \in DOMAIN into THEN into[k] ELSE o[k]])

\* `as` of a plausible slip: updateParams is one object of the module, shared by
\* the invocations, so that it keeps the keys earlier invocations have set
BuildUpdateParamsShared(in) ==
    LET own == AssignIfDefined(AssignIfDefined(AssignIfDefined(AssignIfDefined(
               AssignIfDefined(AssignIfDefined(AssignIfDefined(EmptyObject,
                 "name", in.name), "type", in.type), "sport_type", in.sportType),
                 "description", in.description), "private", in.private),
                 "commute", in.commute), "gear_id", in.gearId)
    IN  MergeAll({callArgs[j].updateParams : j \in {q \in Procs : calls[q] > 0}}, own)

\* lines 56-72: updateParams
BuildUpdateParams(in) ==
    LET p0 == EmptyObject
        p1 == AssignIfDefined(p0, "name", in.name)
        p2 == AssignIfDefined(p1, "type", in.type)
        p3 == AssignIfDefined(p2, "sport_type", in.sportType)
        p4 == AssignIfDefined(p3, "description", in.description)
        p5 == AssignIfDefined(p4, "private", in.private)
        p6 == AssignIfDefined(p5, "commute", in.commute)
        p7 == AssignIfDefined(p6, "gear_id", in.gearId)
    IN  p7

TextResult(text) == [content |-> <<[type |-> "text", text |-> text]>>]
ErrorResult(text) == [content |-> <<[type |-> "text", text |-> text]>>, isError |-> TRUE]

\* lines 46-49
ConfigurationErrorResult ==
    ErrorResult(<<"Configuration error: Missing Strava access token.">>)

\* `as` of a plausible slip: the identifier of the returned activity instead of
\* the identifier the caller gave
SuccessTextReturnedId(activityId, updatedActivity, activityDetailsText) ==
    <<SuccessGlyph, " Successfully updated activity ID ">>
    \o StringOf(updatedActivity.id) \o <<".", NewLine, NewLine>> \o activityDetailsText

\* line 81
SuccessText(activityId, updatedActivity, activityDetailsText) ==
    <<SuccessGlyph, " Successfully updated activity ID ">>
    \o StringOf(activityId) \o <<".", NewLine, NewLine>> \o activityDetailsText

\* line 85: error instanceof Error ? error.message : String(error)
ErrorMessageOf(error) ==
    IF error.t = "Error" THEN error.message ELSE StringOf(error)

RecordNotFound ==
    <<"R", "e", "c", "o", "r", "d", " ", "N", "o", "t", " ", "F", "o", "u", "n", "d">>
NotFound404 == <<"4", "0", "4">>

\* `as` of a plausible slip: the status code is not looked for
IsNotFoundNo404(errorMessage) == Includes(errorMessage, RecordNotFound)

\* line 88
IsNotFound(errorMessage) ==
    Includes(errorMessage, RecordNotFound) \/ Includes(errorMessage, NotFound404)

\* lines 88-90
UserFriendlyMessage(activityId, errorMessage) ==
    IF IsNotFound(errorMessage)
    THEN <<"Activity with ID ">> \o StringOf(activityId)
         \o <<" not found or you don't have permission to update it.">>
    ELSE <<"An unexpected error occurred while updating activity ID ">>
         \o StringOf(activityId) \o <<". Details: ">> \o errorMessage

\* lines 92-95
CatchResult(activityId, error) ==
    ErrorResult(<<FailureGlyph, " ">>
                \o UserFriendlyMessage(activityId, ErrorMessageOf(error)))

\* `as` of a plausible slip: the catch block throws the error on
CatchRethrow(i, error) ==
    /\ pc' = [pc EXCEPT ![i] = "threw"]
    /\ UNCHANGED <<result, calls, callArgs>>

\* `as` of a plausible slip: the catch block calls the update function again
CatchRetry(i, error) ==
    IF calls[i] < 3
    THEN /\ calls' = [calls EXCEPT ![i] = @ + 1]
         /\ UNCHANGED <<pc, result, callArgs>>
    ELSE /\ result' = [result EXCEPT ![i] = CatchResult(input[i].activityId, error)]
         /\ pc' = [pc EXCEPT ![i] = "done"]
         /\ UNCHANGED <<calls, callArgs>>

\* lines 84-96: the catch block of invocation i
Catch(i, error) ==
    /\ result' = [result EXCEPT ![i] = CatchResult(input[i].activityId, error)]
    /\ pc' = [pc EXCEPT ![i] = "done"]
    /\ UNCHANGED <<calls, callArgs>>

\* lines 41-75: invocation i starts and runs to its return (no token) or to
\* the await of the call it makes
Invoke(i, in) ==
    /\ pc[i] = "idle"
    /\ input' = [input EXCEPT ![i] = in]
    /\ token' = [token EXCEPT ![i] = env]
    /\ IF TokenMissing(env)
       THEN /\ result' = [result EXCEPT ![i] = ConfigurationErrorResult]
            /\ pc' = [pc EXCEPT ![i] = "done"]
            /\ UNCHANGED <<calls, callArgs>>
       ELSE /\ calls' = [calls EXCEPT ![i] = @ + 1]
            /\ callArgs' = [callArgs EXCEPT ![i] =
                   [token |-> env, activityId |-> in.activityId,
                    updateParams |-> BuildUpdateParams(in)]]
            /\ pc' = [pc EXCEPT ![i] = "awaiting"]
            /\ UNCHANGED result
    /\ UNCHANGED <<env, outcome, raw, parsed, activity, details>>

\* lines 75-83: the promise of invocation i resolves with `value`
Resolve(i, value) ==
    /\ pc[i] = "awaiting"
    /\ outcome' = [outcome EXCEPT ![i] = [settled |-> "resolved", value |-> value]]
    /\ LET fmt == formatActivityDetails(value)
       IN  IF fmt.threw
           THEN Catch(i, fmt.error)
           ELSE /\ result' = [result EXCEPT ![i] =
                       TextResult(SuccessText(input[i].activityId, value, fmt.value))]
                /\ pc' = [pc EXCEPT ![i] = "done"]
                /\ UNCHANGED <<calls, callArgs>>
    /\ UNCHANGED <<env, input, token, raw, parsed, activity, details>>

\* lines 75, 84: the promise of invocation i rejects with `error`
Reject(i, error) ==
    /\ pc[i] = "awaiting"
    /\ outcome' = [outcome EXCEPT ![i] = [settled |-> "rejected", value |-> error]]
    /\ Catch(i, error)
    /\ UNCHANGED <<env, input, token, raw, parsed, activity, details>>

\* the host changes process.env.STRAVA_ACCESS_TOKEN
SetEnv(tok) ==
    /\ env # tok
    /\ env' = tok
    /\ UNCHANGED <<pc, input, token, calls, callArgs, outcome, result,
                   raw, parsed, activity, details>>

-----------------------------------------------------------------------------
(* The inputs, the environment and the outcomes of the external call *)

TestToken == Str(<<"test-token">>)
OtherToken == Str(<<"other-token">>)
TokenValues == {Undefined, Str(<<>>), TestToken, OtherToken}

ActivityIds == (1..MaxId) \cup {404, 12345}

\* validated inputs of execute: what safeParse hands on
Inputs ==
    {InputObject(Num(id), name, type, sportType, description, private, commute,
                 gearId, Undefined) :
        id \in ActivityIds,
        name \in {Undefined, Str(<<>>), Str(<<"Updated Name">>)},
        type \in {Undefined, Str(<<"Ride">>)},
        sportType \in {Undefined, Str(<<"cycling">>)},
        description \in {Undefined, Str(<<>>), Str(<<"Updated description">>)},
        private \in {Undefined, Bool(FALSE), Bool(TRUE)},
        commute \in {Undefined, Bool(FALSE), Bool(TRUE)},
        gearId \in {Undefined, Null, Str(<<>>), Str(<<"bike-123">>)}}

\* the inputs of the concurrent invocations
ConcInputs ==
    {InputObject(Num(1), Str(<<"Updated Name">>), Undefined, Undefined, Undefined,
                 Undefined, Undefined, Undefined, Undefined),
     InputObject(Num(12345), Undefined, Undefined, Undefined, Undefined,
                 Undefined, Undefined, Null, Undefined),
     InputObject(Num(1), Undefined, Undefined, Undefined, Undefined,
                 Undefined, Bool(FALSE), Undefined, Undefined)}

\* the mockActivity of the tests (lines 112-157)
MockActivity ==
    Activity(12345, <<"Updated Test Activity">>, <<"2024-01-01T06:00:00Z">>,
             Num(5000), Num(100), Str(<<"Test activity description">>),
             Bool(FALSE), Bool(FALSE))
BareActivity ==
    Activity(1, <<"a">>, <<"2024-01-01T06:00:00Z">>,
             Num(0), Undefined, Null, Bool(TRUE), Bool(TRUE))

\* what the promise of updateActivityInStrava can resolve with: an activity, or
\* (the types are erased at run time; a bare vi.fn() resolves so) undefined / null
Resolutions == {MockActivity, BareActivity, Undefined, Null}

RECURSIVE SeqsUpTo(_, _)
\* the sequences over `alphabet` of length at most n
SeqsUpTo(alphabet, n) ==
    IF n = 0 THEN {<<>>}
    ELSE LET shorter == SeqsUpTo(alphabet, n - 1)
         IN  shorter \cup {Append(m, c) : m \in shorter, c \in alphabet}

ErrorMessages ==
    SeqsUpTo({"4", "0"}, MaxMsgLen)
    \cup {RecordNotFound,
          <<"x">> \o RecordNotFound \o <<"x">>,
          SubSeq(RecordNotFound, 1, Len(RecordNotFound) - 1),
          <<"r">> \o Tail(RecordNotFound),
          <<"Request failed with status code ">> \o NotFound404,
          <<"Network Error">>}

\* what the promise can reject with: an Error, or any other thrown value
Rejections ==
    {ErrorObj(m) : m \in ErrorMessages}
    \cup {Str(RecordNotFound), Str(NotFound404), Str(<<"x">>),
          Num(404), Num(40), Null, Undefined}

ConcResolutions == {MockActivity}
ConcRejections == {ErrorObj(RecordNotFound), ErrorObj(<<"Network Error">>)}

-----------------------------------------------------------------------------
(* Specifications *)

Init ==
    /\ env \in TokenValues
    /\ pc = [i \in Procs |-> "idle"]
    /\ input = [i \in Procs |-> Undefined]
    /\ token = [i \in Procs |-> Undefined]
    /\ calls = [i \in Procs |-> 0]
    /\ callArgs = [i \in Procs |-> Undefined]
    /\ outcome = [i \in Procs |-> Undefined]
    /\ result = [i \in Procs |-> Undefined]
    /\ raw = Undefined
    /\ parsed = Undefined
    /\ activity = Undefined
    /\ details = Undefined

\* the pure functions read no environment
PureInit == Init /\ env = Undefined

\* one invocation of execute, over all the inputs
Next ==
    \/ pc[1] = "idle" /\ \E in \in Inputs : Invoke(1, in)
    \/ pc[1] = "awaiting" /\ \E v \in Resolutions : Resolve(1, v)
    \/ pc[1] = "awaiting" /\ \E e \in Rejections : Reject(1, e)

Spec == Init /\ [][Next]_vars

\* NumProcs invocations of execute, interleaved at their awaits, while the host
\* may change the environment
ConcNext ==
    \/ \E i \in Procs, in \in ConcInputs : Invoke(i, in)
    \/ \E i \in Procs, v \in ConcResolutions : Resolve(i, v)
    \/ \E i \in Procs, e \in ConcRejections : Reject(i, e)
    \/ \E tok \in TokenValues : SetEnv(tok)

ConcSpec == Init /\ [][ConcNext]_vars

\* inputSchema.safeParse, over the raw inputs
ParseNext == parsed = Undefined /\ \E v \in RawInputs : SafeParse(v)

ParseSpec == PureInit /\ [][ParseNext]_vars

\* formatActivityDetails, over the activities
FormatNext == activity = Undefined /\ \E a \in Activities : Format(a)

FormatSpec == PureInit /\ [][FormatNext]_vars

-----------------------------------------------------------------------------
(* Vocabulary of the properties *)

\* the optional fields of the input and the key of the payload each is sent under
OptionalFields ==
    {"name", "type", "sportType", "description", "private", "commute", "gearId"}
PayloadKey(f) ==
    CASE f = "sportType" -> "sport_type"
      [] f = "gearId" -> "gear_id"
      [] OTHER -> f

\* the credential is absent or the empty string
CredentialAbsent(tok) == tok = Undefined \/ tok = Str(<<>>)

Started(i) == pc[i] # "idle"
Finished(i) == pc[i] = "done"
Rejected(i) == outcome[i] # Undefined /\ outcome[i].settled = "rejected"
Resolved(i) == outcome[i] # Undefined /\ outcome[i].settled = "resolved"

HasErrorFlag(r) == "isError" \in DOMAIN r /\ r.isError = TRUE
TextOf(r) == r.content[1].text
IdText(i) == Digits(input[i].activityId.num)

\* C1: whenever execute has called the update function, the payload holds the
\* key of an optional field exactly if the input supplied that field (null
\* counts as supplied), each key carries the supplied value, and there is no
\* other key.
C1_PayloadKeysIffSupplied ==
    \A i \in Procs : calls[i] > 0 =>
        LET p == callArgs[i].updateParams
            in == input[i]
        IN  /\ DOMAIN p \subseteq {PayloadKey(f) : f \in OptionalFields}
            /\ \A f \in OptionalFields :
                 /\ PayloadKey(f) \in DOMAIN p <=> in[f] # Undefined
                 /\ PayloadKey(f) \in DOMAIN p => p[PayloadKey(f)] = in[f]

\* commute=false, gearId=null and name="" were supplied and are sent
C1_Witness ==
    /\ calls[1] = 1
    /\ input[1].commute = Bool(FALSE) /\ input[1].gearId = Null
    /\ input[1].name = Str(<<>>) /\ input[1].description = Undefined
    /\ callArgs[1].updateParams =
         [k \in {"name", "commute", "gear_id"} |->
            CASE k = "name" -> Str(<<>>) [] k = "commute" -> Bool(FALSE)
              [] OTHER -> Null]

\* C2: an invocation that read an absent or empty credential returns at once a
\* result with the error flag and the configuration-error phrase, and never
\* calls the update function.
C2_MissingCredentialFailsFast ==
    \A i \in Procs : (Started(i) /\ CredentialAbsent(token[i])) =>
        /\ Finished(i)
        /\ HasErrorFlag(result[i])
        /\ Includes(TextOf(result[i]),
                    <<"Configuration error: Missing Strava access token.">>)
        /\ calls[i] = 0

C2_Witness ==
    /\ Finished(1) /\ token[1] = Str(<<>>) /\ env = Str(<<>>)
    /\ calls[1] = 0 /\ HasErrorFlag(result[1])

\* C3: on every failure path (missing credential, rejection) the result has
\* the error flag and its text begins with the failure glyph.
C3_FailureTextBeginsWithGlyph ==
    \A i \in Procs : (Finished(i) /\ (CredentialAbsent(token[i]) \/ Rejected(i))) =>
        /\ HasErrorFlag(result[i])
        /\ Head(TextOf(result[i])) = FailureGlyph

\* C4: a rejection is classified by its message text: with "Record Not Found"
\* or "404" in it the result is the not-found sentence with the identifier,
\* otherwise the generic sentence with the identifier and the raw error text;
\* never both, and the error flag is set either way.
C4_RejectionClassified ==
    \A i \in Procs : (Finished(i) /\ Rejected(i)) =>
        LET error == outcome[i].value
            msg == IF error.t = "Error" THEN error.message ELSE StringOf(error)
            notFound == Includes(msg, RecordNotFound) \/ Includes(msg, NotFound404)
            text == TextOf(result[i])
            notFoundSentence ==
                <<"Activity with ID ">> \o IdText(i)
                \o <<" not found or you don't have permission to update it.">>
            genericSentence ==
                <<"An unexpected error occurred while updating activity ID ">>
                \o IdText(i) \o <<". Details: ">> \o msg
        IN  /\ HasErrorFlag(result[i])
            /\ Includes(text, notFoundSentence) <=> notFound
            /\ Includes(text, genericSentence) <=> ~notFound

\* a status-code message is classified not-found
C4_Witness ==
    /\ Finished(1) /\ Rejected(1)
    /\ outcome[1].value = ErrorObj(<<"Request failed with status code ", "4", "0", "4">>)
    /\ input[1].activityId = Num(12345)
    /\ TextOf(result[1]) =
         <<FailureGlyph, " ", "Activity with ID ", "1", "2", "3", "4", "5",
           " not found or you don't have permission to update it.">>

\* C5: no invocation ends by throwing: whatever the credential, the rejection
\* value or the resolved value, a finished invocation has returned a result
\* object of one text block, with the error flag or without it.
C5_AlwaysStructuredResult ==
    \A i \in Procs :
        /\ pc[i] \in {"idle", "awaiting", "done"}
        /\ Finished(i) =>
             /\ DOMAIN result[i] \in {{"content"}, {"content", "isError"}}
             /\ Len(result[i].content) = 1
             /\ result[i].content[1].type = "text"
             /\ Len(result[i].content[1].text) > 0
             /\ "isError" \in DOMAIN result[i] => result[i].isError = TRUE

\* the call resolved with undefined, formatting threw, and a result was returned
C5_Witness ==
    /\ Finished(1) /\ Resolved(1) /\ outcome[1].value = Undefined
    /\ HasErrorFlag(result[1])

\* C6: an invocation calls the update function once if it read a credential
\* and not at all otherwise, with (credential, activityId, payload), and not
\* again after a rejection.
C6_AtMostOneCall ==
    \A i \in Procs :
        /\ calls[i] \in {0, 1}
        /\ Started(i) => (calls[i] = 1 <=> ~CredentialAbsent(token[i]))
        /\ calls[i] > 0 =>
             /\ callArgs[i].token = token[i]
             /\ callArgs[i].activityId = input[i].activityId
             /\ callArgs[i].updateParams = BuildUpdateParams(input[i])

C6_Witness ==
    /\ Finished(1) /\ Rejected(1) /\ calls[1] = 1
    /\ callArgs[1].token = TestToken

\* the result of invocation i is a success result: no error flag, and a text
\* that begins with the success glyph and the sentence with the caller's identifier
SuccessResult(i) ==
    LET opening == <<SuccessGlyph, " Successfully updated activity ID ">>
                   \o IdText(i) \o <<".">>
    IN  /\ "isError" \notin DOMAIN result[i]
        /\ Len(TextOf(result[i])) >= Len(opening)
        /\ SubSeq(TextOf(result[i]), 1, Len(opening)) = opening

\* C7 as stated: a finished invocation has a success result exactly if it read
\* a credential and its call was made and resolved.
C7_SuccessIffResolved ==
    \A i \in Procs : Finished(i) =>
        (SuccessResult(i) <=>
            (~CredentialAbsent(token[i]) /\ calls[i] = 1 /\ Resolved(i)))

\* C7 as amended: no result exists before the call has settled; a finished
\* invocation has a success result exactly if it read a credential, its call
\* was made and resolved, and the value it resolved with is an activity object
\* (one formatActivityDetails returns for); the text is then the opening
\* sentence followed by the formatted summary of that activity.
C7_SuccessIffResolvedWithActivity ==
    \A i \in Procs :
        /\ pc[i] \in {"idle", "awaiting"} => result[i] = Undefined
        /\ Finished(i) =>
             LET made == ~CredentialAbsent(token[i]) /\ calls[i] = 1 /\ Resolved(i)
                         /\ outcome[i].value.t = "object"
             IN  /\ SuccessResult(i) <=> made
                 /\ made =>
                      TextOf(result[i]) =
                          <<SuccessGlyph, " Successfully updated activity ID ">>
                          \o IdText(i) \o <<".", NewLine, NewLine>>
                          \o formatActivityDetails(outcome[i].value).value

\* the activity returned for identifier 1 carries another identifier
C7_Witness ==
    /\ Finished(1) /\ Resolved(1) /\ outcome[1].value = MockActivity
    /\ input[1].activityId = Num(1)
    /\ SuccessResult(1)

\* an input safeParse is to accept: a positive integer activityId, every
\* supplied optional field of its declared type, gearId a string, null or absent
Acceptable(v) ==
    /\ v.t = "object"
    /\ v.activityId.t = "number"
    /\ v.activityId.num % v.activityId.den = 0
    /\ v.activityId.num > 0
    /\ \A f \in {"name", "type", "sportType", "description"} :
         v[f] = Undefined \/ v[f].t = "string"
    /\ \A f \in {"private", "commute"} : v[f] = Undefined \/ v[f].t = "boolean"
    /\ v.gearId = Undefined \/ v.gearId = Null \/ v.gearId.t = "string"

\* C8: safeParse returns a result object whose success flag is true exactly for
\* the acceptable inputs; a rejection is a result with success false.
C8_SafeParseAcceptsIffValid ==
    parsed # Undefined =>
        /\ parsed.success \in BOOLEAN
        /\ parsed.success <=> Acceptable(raw)
        /\ ~parsed.success => parsed.error # {}

\* an explicit null gearId is accepted
C8_Witness ==
    /\ parsed # Undefined /\ parsed.success
    /\ raw.gearId = Null /\ raw.activityId = Num(12345)

\* the payload the fields of `in` ask for
ExpectedPayload(in) ==
    [k \in {PayloadKey(f) : f \in {g \in OptionalFields : in[g] # Undefined}} |->
        in[CHOOSE f \in OptionalFields : PayloadKey(f) = k]]

\* the result execute is to return for input `in`, credential `tok` and the
\* outcome `out` of its own call
ExpectedResult(in, tok, out) ==
    IF CredentialAbsent(tok) THEN ConfigurationErrorResult
    ELSE IF out.settled = "resolved" /\ out.value.t = "object"
    THEN TextResult(SuccessText(in.activityId, out.value,
                                formatActivityDetails(out.value).value))
    ELSE IF out.settled = "resolved"
    THEN CatchResult(in.activityId, formatActivityDetails(out.value).error)
    ELSE CatchResult(in.activityId, out.value)

\* C9: in every interleaving, the call and the result of an invocation are
\* those its own input, the credential it read and the outcome of its own call
\* determine.
C9_InvocationsIndependent ==
    \A i \in Procs :
        /\ calls[i] > 0 =>
             callArgs[i] = [token |-> token[i], activityId |-> input[i].activityId,
                            updateParams |-> ExpectedPayload(input[i])]
        /\ calls[i] = (IF Started(i) /\ ~CredentialAbsent(token[i]) THEN 1 ELSE 0)
        /\ Finished(i) => result[i] = ExpectedResult(input[i], token[i], outcome[i])

\* two invocations in flight with different credentials and payloads, the
\* environment changed since, one of them failed
C9_Witness ==
    /\ pc[1] = "awaiting" /\ Finished(2) /\ Rejected(2)
    /\ token[1] = TestToken /\ token[2] = OtherToken /\ env = Undefined
    /\ DOMAIN callArgs[1].updateParams = {"name"}
    /\ DOMAIN callArgs[2].updateParams = {"gear_id"}

\* the line of the summary that starts with `label` and holds `value`
HasLine(text, label, value) == Includes(text, <<label>> \o value \o <<NewLine>>)
HasLabel(text, label) == \E k \in 1..Len(text) : text[k] = label

\* d metres as kilometres with two decimals
KmText(d) ==
    LET h == (d + 5) \div 10
    IN  Digits(h \div 100) \o <<".", DigitChar[((h \div 10) % 10) + 1],
                                DigitChar[(h % 10) + 1]>>

\* C10: the Distance line is there exactly if distance is defined and the
\* Elevation Gain line exactly if total_elevation_gain is; a zero value shows
\* N/A, another one the kilometres with two decimals, the whole metres; the
\* Description line is there exactly if the description is non-empty; the
\* Private and Commute lines are always there, as Yes or No.
C10_SummaryLines ==
    activity # Undefined =>
        LET text == details.value
            dist == activity.distance
            elev == activity.total_elevation_gain
            desc == activity.description
        IN  /\ ~details.threw
            /\ HasLabel(text, "   - Distance: ") <=> dist # Undefined
            /\ HasLabel(text, "   - Elevation Gain: ") <=> elev # Undefined
            /\ dist # Undefined =>
                 HasLine(text, "   - Distance: ",
                         IF dist.num = 0 THEN <<"N/A">>
                         ELSE KmText(dist.num) \o <<" km">>)
            /\ elev # Undefined =>
                 HasLine(text, "   - Elevation Gain: ",
                         IF elev.num = 0 THEN <<"N/A">>
                         ELSE Digits((elev.num + 5) \div 10) \o <<" m">>)
            /\ HasLabel(text, "   - Description: ")
                 <=> (desc # Undefined /\ desc # Null /\ desc.v # <<>>)
            /\ HasLine(text, "   - Private: ",
                       IF activity.private = Bool(TRUE) THEN <<"Yes">> ELSE <<"No">>)
            /\ HasLine(text, "   - Commute: ",
                       IF activity.commute = Bool(TRUE) THEN <<"Yes">> ELSE <<"No">>)

\* a zero distance shows N/A, a gain of 2.5 m shows 3 m
C10_Witness ==
    /\ activity # Undefined
    /\ activity.distance = Num(0) /\ activity.total_elevation_gain = Rat(25, 10)
    /\ HasLine(details.value, "   - Distance: ", <<"N/A">>)
    /\ HasLine(details.value, "   - Elevation Gain: ", <<"3", " m">>)

=============================================================================
